---------------------------- MODULE Spec2Model ----------------------------
(***************************************************************************)
(* Black-Scholes option pricing application (src/app.py): the pricing      *)
(* function black_scholes, the grid evaluation plot_heatmap, and the       *)
(* Streamlit script that collects the inputs, prices one option and plots  *)
(* the two heatmaps.                                                       *)
(*                                                                         *)
(* Floats are modelled as IEEE-754 values with three classes (finite,      *)
(* infinite, NaN), a sign (so that +0.0 and -0.0 differ) and, for finite   *)
(* values, a magnitude in thousandths.  Every value also carries whether   *)
(* it is a NumPy float64 or a native Python float: the two differ in what  *)
(* a division by zero does (IEEE result against ZeroDivisionError).        *)
(***************************************************************************)
EXTENDS Integers, Sequences, FiniteSets, TLC

\* Finite float magnitudes are counted in units of 1/Scale.
Scale == 1000

----------------------------------------------------------------------------
(* Float values *)

Fin(s, m, isnp) == [cls |-> "fin", sgn |-> s, mag |-> m, np |-> isnp]
Inf(s, isnp)    == [cls |-> "inf", sgn |-> s, mag |-> 0, np |-> isnp]
NaN(isnp)       == [cls |-> "nan", sgn |-> 1, mag |-> 0, np |-> isnp]

\* A native Python float literal, given in thousandths.
PyFloat(x) == Fin(IF x < 0 THEN -1 ELSE 1, IF x < 0 THEN -x ELSE x, FALSE)
\* A NumPy float64 scalar, given in thousandths.
NpFloat(x) == Fin(IF x < 0 THEN -1 ELSE 1, IF x < 0 THEN -x ELSE x, TRUE)

IsNaN(x)    == x.cls = "nan"
IsFinite(x) == x.cls = "fin"
IsZero(x)   == x.cls = "fin" /\ x.mag = 0
\* The signed value of a finite float, in thousandths.
Val(x)      == x.sgn * x.mag
\* Python's x > 0 and x <= 0 on floats (every comparison with NaN is False).
Positive(x) == ~IsNaN(x) /\ x.sgn = 1 /\ ~IsZero(x)
Less(x, y)  == IsFinite(x) /\ IsFinite(y) /\ Val(x) < Val(y)

\* Division of naturals rounded to nearest (b > 0).
RDiv(a, b) == (2 * a + b) \div (2 * b)

Neg(x) == IF IsNaN(x) THEN x ELSE [x EXCEPT !.sgn = -x.sgn]

Add(x, y) ==
    LET isnp == x.np \/ y.np IN
    IF IsNaN(x) \/ IsNaN(y) THEN NaN(isnp)
    ELSE IF x.cls = "inf" /\ y.cls = "inf"
         THEN IF x.sgn = y.sgn THEN Inf(x.sgn, isnp) ELSE NaN(isnp)
    ELSE IF x.cls = "inf" THEN Inf(x.sgn, isnp)
    ELSE IF y.cls = "inf" THEN Inf(y.sgn, isnp)
    ELSE LET v == Val(x) + Val(y) IN
         IF v = 0
         THEN Fin(IF x.sgn = -1 /\ y.sgn = -1 THEN -1 ELSE 1, 0, isnp)
         ELSE Fin(IF v < 0 THEN -1 ELSE 1, IF v < 0 THEN -v ELSE v, isnp)

Sub(x, y) == Add(x, Neg(y))

Mul(x, y) ==
    LET isnp == x.np \/ y.np
        s    == x.sgn * y.sgn
    IN
    IF IsNaN(x) \/ IsNaN(y) THEN NaN(isnp)
    ELSE IF x.cls = "inf" \/ y.cls = "inf"
         THEN IF IsZero(x) \/ IsZero(y) THEN NaN(isnp) ELSE Inf(s, isnp)
    ELSE Fin(s, RDiv(x.mag * y.mag, Scale), isnp)

\* x / y where at least one operand is a NumPy float64: IEEE-754, a zero
\* divisor gives an infinity or NaN (and a RuntimeWarning), never an error.
Div(x, y) ==
    LET isnp == x.np \/ y.np
        s    == x.sgn * y.sgn
    IN
    IF IsNaN(x) \/ IsNaN(y) THEN NaN(isnp)
    ELSE IF x.cls = "inf"
         THEN IF y.cls = "inf" THEN NaN(isnp) ELSE Inf(s, isnp)
    ELSE IF y.cls = "inf" THEN Fin(s, 0, isnp)
    ELSE IF y.mag = 0
         THEN IF x.mag = 0 THEN NaN(isnp) ELSE Inf(s, isnp)
    ELSE Fin(s, RDiv(x.mag * Scale, y.mag), isnp)

\* Python's float / float raises ZeroDivisionError on a zero divisor; NumPy's
\* float64 does not.
RaisesZeroDivision(x, y) == ~x.np /\ ~y.np /\ IsZero(y)

\* x ** 2
Square(x) == Mul(x, x)

----------------------------------------------------------------------------
(* Library functions, tabulated to three decimals *)

CdfTable ==
    << 500, 504, 508, 512, 516, 520, 524, 528, 532, 536, 540, 544,
       548, 552, 556, 560, 564, 567, 571, 575, 579, 583, 587, 591,
       595, 599, 603, 606, 610, 614, 618, 622, 626, 629, 633, 637,
       641, 644, 648, 652, 655, 659, 663, 666, 670, 674, 677, 681,
       684, 688, 691, 695, 698, 702, 705, 709, 712, 716, 719, 722,
       726, 729, 732, 736, 739, 742, 745, 749, 752, 755, 758, 761,
       764, 767, 770, 773, 776, 779, 782, 785, 788, 791, 794, 797,
       800, 802, 805, 808, 811, 813, 816, 819, 821, 824, 826, 829,
       831, 834, 836, 839, 841, 844, 846, 848, 851, 853, 855, 858,
       860, 862, 864, 867, 869, 871, 873, 875, 877, 879, 881, 883,
       885, 887, 889, 891, 893, 894, 896, 898, 900, 901, 903, 905,
       907, 908, 910, 911, 913, 915, 916, 918, 919, 921, 922, 924,
       925, 926, 928, 929, 931, 932, 933, 934, 936, 937, 938, 939,
       941, 942, 943, 944, 945, 946, 947, 948, 949, 951, 952, 953,
       954, 954, 955, 956, 957, 958, 959, 960, 961, 962, 962, 963,
       964, 965, 966, 966, 967, 968, 969, 969, 970, 971, 971, 972,
       973, 973, 974, 974, 975, 976, 976, 977, 977, 978, 978, 979,
       979, 980, 980, 981, 981, 982, 982, 983, 983, 983, 984, 984,
       985, 985, 985, 986, 986, 986, 987, 987, 987, 988, 988, 988,
       989, 989, 989, 990, 990, 990, 990, 991, 991, 991, 991, 992,
       992, 992, 992, 992, 993, 993, 993, 993, 993, 994, 994, 994,
       994, 994, 994, 995, 995, 995, 995, 995, 995, 995, 996, 996,
       996, 996, 996, 996, 996, 996, 997, 997, 997, 997, 997, 997,
       997, 997, 997, 997, 997, 998, 998, 998, 998, 998, 998, 998,
       998, 998, 998, 998, 998, 998, 998, 998, 998, 999, 999, 999,
       999, 999, 999, 999, 999, 999, 999, 999, 999, 999, 999, 999,
       999, 999, 999, 999, 999, 999, 999, 999, 999, 999, 999, 999,
       999, 999, 999, 999, 999, 999, 1000, 1000, 1000, 1000, 1000, 1000,
       1000, 1000, 1000, 1000, 1000, 1000, 1000, 1000, 1000, 1000, 1000, 1000,
       1000, 1000, 1000, 1000, 1000, 1000, 1000, 1000, 1000, 1000, 1000, 1000,
       1000, 1000, 1000, 1000, 1000, 1000, 1000, 1000, 1000, 1000, 1000, 1000,
       1000, 1000, 1000, 1000, 1000, 1000, 1000, 1000, 1000, 1000, 1000, 1000,
       1000, 1000, 1000, 1000, 1000, 1000, 1000, 1000, 1000, 1000, 1000, 1000,
       1000, 1000, 1000, 1000, 1000 >>

LogTable ==
    << 0, 10, 20, 30, 39, 49, 58, 68, 77, 86, 95, 104,
       113, 122, 131, 140, 148, 157, 166, 174, 182, 191, 199, 207,
       215, 223, 231, 239, 247, 255, 262, 270, 278, 285, 293, 300,
       307, 315, 322, 329, 336, 344, 351, 358, 365, 372, 378, 385,
       392, 399, 405, 412, 419, 425, 432, 438, 445, 451, 457, 464,
       470, 476, 482, 489, 495, 501, 507, 513, 519, 525, 531, 536,
       542, 548, 554, 560, 565, 571, 577, 582, 588, 593, 599, 604,
       610, 615, 621, 626, 631, 637, 642, 647, 652, 658, 663, 668,
       673, 678, 683, 688, 693 >>

ExpTable ==
    << 1000, 1010, 1020, 1030, 1041, 1051, 1062, 1073, 1083, 1094, 1105, 1116,
       1127, 1139, 1150, 1162, 1174, 1185, 1197, 1209, 1221, 1234, 1246, 1259,
       1271, 1284, 1297, 1310, 1323, 1336, 1350, 1363, 1377, 1391, 1405, 1419,
       1433, 1448, 1462, 1477, 1492, 1507, 1522, 1537, 1553, 1568, 1584, 1600,
       1616, 1632, 1649, 1665, 1682, 1699, 1716, 1733, 1751, 1768, 1786, 1804,
       1822, 1840, 1859, 1878, 1896, 1916, 1935, 1954, 1974, 1994, 2014, 2034,
       2054, 2075, 2096, 2117, 2138, 2160, 2181, 2203, 2226, 2248, 2270, 2293,
       2316, 2340, 2363, 2387, 2411, 2435, 2460, 2484, 2509, 2535, 2560, 2586,
       2612, 2638, 2664, 2691, 2718 >>

ExpIntTable ==
    << 0, 1, 2, 7, 18, 50, 135, 368, 1000, 2718, 7389, 20086,
       54598, 148413 >>

\* Linear interpolation in a table of step 10 thousandths; m >= 0 within it.
Interp(table, m) ==
    LET i  == m \div 10
        f  == m % 10
        lo == table[i + 1]
        hi == IF f = 0 THEN lo ELSE table[i + 2]
    IN  lo + RDiv((hi - lo) * f, 10)

\* ln of a positive magnitude: halve or double into [1, 2), then the table.
RECURSIVE LogMag(_)
LogMag(m) ==
    IF m >= 2 * Scale THEN LogMag(RDiv(m, 2)) + 693
    ELSE IF m < Scale THEN LogMag(2 * m) - 693
    ELSE Interp(LogTable, m - Scale)

np_log(x) ==
    IF IsNaN(x) THEN NaN(TRUE)
    ELSE IF IsZero(x) THEN Inf(-1, TRUE)
    ELSE IF x.sgn = -1 THEN NaN(TRUE)
    ELSE IF x.cls = "inf" THEN Inf(1, TRUE)
    ELSE LET v == LogMag(x.mag) IN
         Fin(IF v < 0 THEN -1 ELSE 1, IF v < 0 THEN -v ELSE v, TRUE)

\* Integer square root of n, rounded to nearest.
RECURSIVE ISqrt(_, _)
ISqrt(n, y) == IF y * y > n THEN ISqrt(n, y - 1)
               ELSE IF (y + 1) * (y + 1) <= n THEN ISqrt(n, y + 1)
               ELSE IF n - y * y > y THEN y + 1 ELSE y

np_sqrt(x) ==
    IF IsNaN(x) THEN NaN(TRUE)
    ELSE IF IsZero(x) THEN Fin(x.sgn, 0, TRUE)
    ELSE IF x.sgn = -1 THEN NaN(TRUE)
    ELSE IF x.cls = "inf" THEN Inf(1, TRUE)
    ELSE Fin(1, ISqrt(x.mag * Scale, x.mag), TRUE)

\* e^v for a signed v in thousandths, -8 <= v/1000 < 6.
ExpVal(v) ==
    LET n == IF v >= 0 THEN v \div Scale ELSE -((-v + Scale - 1) \div Scale)
        f == v - n * Scale
    IN  IF n < -8 THEN 0
        ELSE RDiv(ExpIntTable[n + 9] * Interp(ExpTable, f), Scale)

np_exp(x) ==
    IF IsNaN(x) THEN NaN(TRUE)
    ELSE IF x.cls = "inf" THEN IF x.sgn = 1 THEN Inf(1, TRUE) ELSE Fin(1, 0, TRUE)
    ELSE Fin(1, ExpVal(Val(x)), TRUE)

\* scipy.stats.norm.cdf
norm_cdf(x) ==
    IF IsNaN(x) THEN NaN(TRUE)
    ELSE LET upper == IF x.cls = "inf" \/ x.mag >= 4 * Scale THEN Scale
                      ELSE Interp(CdfTable, x.mag)
         IN  Fin(1, IF x.sgn = 1 THEN upper ELSE Scale - upper, TRUE)

----------------------------------------------------------------------------
(* State *)

VARIABLES
    pc,        \* where the script is: "idle", "inputs", "priced", "heatmap",
               \* "plotted", "done", "aborted"
    g,         \* the script's global namespace
    stack,     \* the active call of plot_heatmap, if any: <<frame>> or <<>>
    figures,   \* number of figures in pyplot's registry (plt.subplots adds one)
    page,      \* what this run of the script has put on the page
    outcome,   \* how the latest operation ended, if it has: <<[op, res]>> with
               \* res a Return(..) or a Raise(..), or <<>>
    first,     \* the first call of black_scholes made: <<[args, out]>> or <<>>
    last,      \* the calls of black_scholes the latest step made, in order
    ops        \* top-level operations started

vars == <<pc, g, stack, figures, page, outcome, first, last, ops>>

----------
(* black_scholes, src/app.py lines 9-18 *)

\* How a call ends: it returns a value or raises an exception.
Return(v) == [kind |-> "return", value |-> v]
Raise(e)  == [kind |-> "raise", exc |-> e]

\* Line 10.
d1_of(S, K, T, r, sigma) ==
    Div(Add(np_log(Div(S, K)),
            Mul(Add(r, Mul(PyFloat(500), Square(sigma))), T)),
        Mul(sigma, np_sqrt(T)))

\* Line 11.
d2_of(d1, T, sigma) == Sub(d1, Mul(sigma, np_sqrt(T)))

\* Line 14.
call_branch(S, K, T, r, d1, d2) ==
    Sub(Mul(S, norm_cdf(d1)),
        Mul(Mul(K, np_exp(Mul(Neg(r), T))), norm_cdf(d2)))

\* Line 16.
put_branch(S, K, T, r, d1, d2) ==
    Sub(Mul(Mul(K, np_exp(Mul(Neg(r), T))), norm_cdf(Neg(d2))),
        Mul(S, norm_cdf(Neg(d1))))

\* black_scholes as it would be if its body read the script's global S, once
\* the script has bound it, instead of its own parameter.
black_scholes_ambient(S, K, T, r, sigma, option_type) ==
    LET S0 == IF "S" \in DOMAIN g THEN g.S ELSE S IN
    IF RaisesZeroDivision(S0, K) THEN Raise("ZeroDivisionError")
    ELSE LET d1 == d1_of(S0, K, T, r, sigma)
             d2 == d2_of(d1, T, sigma)
         IN  IF option_type = "call" THEN Return(call_branch(S0, K, T, r, d1, d2))
             ELSE IF option_type = "put" THEN Return(put_branch(S0, K, T, r, d1, d2))
             ELSE Raise("ValueError")

\* The outcome of black_scholes(S, K, T, r, sigma, option_type).  The first
\* operation evaluated is S / K (line 10), the only one that can raise;
\* option_type is looked at only after d1 and d2 have been computed
\* (lines 13-18).
black_scholes(S, K, T, r, sigma, option_type) ==
    IF RaisesZeroDivision(S, K) THEN Raise("ZeroDivisionError")
    ELSE LET d1 == d1_of(S, K, T, r, sigma)
             d2 == d2_of(d1, T, sigma)
         IN  IF option_type = "call" THEN Return(call_branch(S, K, T, r, d1, d2))
             ELSE IF option_type = "put" THEN Return(put_branch(S, K, T, r, d1, d2))
             ELSE Raise("ValueError")

----------------------------------------------------------------------------
(* NumPy and Streamlit helpers used by the script *)

\* A two-dimensional NumPy array: its rows.
ndarray(rows) == [type |-> "ndarray", a |-> rows]

\* np.zeros((n, m)): n rows of m zeros.
np_zeros(n, m) == ndarray([i \in 1..n |-> [j \in 1..m |-> NpFloat(0)]])

\* a[i, j] = v (indices from 0).
SetCell(arr, i, j, v) == [arr EXCEPT !.a[i + 1][j + 1] = v]

\* np.linspace(start, stop, num) for finite start and stop: num evenly spaced
\* float64 values, the first one start and (for num > 1) the last one stop.
\* No order of start and stop is required.  num = 0 gives an empty array and
\* a negative num raises ValueError.
np_linspace(start, stop, num) ==
    IF num < 0 THEN Raise("ValueError")
    ELSE Return([i \in 1..num |->
            IF i = 1 THEN NpFloat(Val(start))
            ELSE IF i = num THEN NpFloat(Val(stop))
            ELSE LET delta == Val(stop) - Val(start)
                     off   == IF delta >= 0
                              THEN RDiv((i - 1) * delta, num - 1)
                              ELSE -RDiv((i - 1) * (-delta), num - 1)
                 IN  NpFloat(Val(start) + off)])

\* np.round(a, 2) on an array of finite floats (round half to even).
Round2(x) ==
    LET q == x.mag \div 10
        f == x.mag % 10
        up == f > 5 \/ (f = 5 /\ q % 2 = 1)
    IN  [x EXCEPT !.mag = 10 * (IF up THEN q + 1 ELSE q), !.np = TRUE]
np_round(a) == [i \in DOMAIN a |-> Round2(a[i])]

\* st.number_input / st.slider: the default value must lie within the
\* widget's bounds, or the widget raises; what is returned is the value the
\* user has set, which the widget keeps within its bounds.
WidgetRaises(value, lo, hi) ==
    \/ (lo # <<>> /\ Less(value, lo[1]))
    \/ (hi # <<>> /\ Less(hi[1], value))

\* A namespace (globals of the script, locals of a call) maps the names bound
\* so far to their values.
NoNames == <<>>
Bind(ns, new) ==
    [n \in DOMAIN ns \cup DOMAIN new |-> IF n \in DOMAIN new THEN new[n] ELSE ns[n]]
Bound(ns, n) == n \in DOMAIN ns

----------------------------------------------------------------------------
(* Bounds of the model and constants of the program *)

\* Top-level operations (script runs, direct calls) in one behaviour.
MaxOps == 2

\* Points on each axis of the script's heatmaps.  The script asks np.linspace
\* for 10 (lines 104-105); the model builds shorter axes, the double loop
\* being the same for every count.
GridPoints == 3

\* min_value=0.01 of the four range widgets, lines 99-102.
MinValue == 10
\* max_value=1.0 of the two volatility sliders, lines 101-102.
MaxVolatility == 1000

\* The values the user can type into the five unbounded number inputs.
S_inputs     == {PyFloat(0), PyFloat(1000)}
K_inputs     == {PyFloat(-1000), PyFloat(0), PyFloat(1000)}
T_inputs     == {PyFloat(0), PyFloat(1000)}
sigma_inputs == {PyFloat(0), PyFloat(200), PyFloat(800)}
r_inputs     == {PyFloat(50)}
\* The values the user can set the bounded range widgets to (besides leaving
\* them at their defaults).
SpotChoices  == {PyFloat(MinValue), PyFloat(1200)}
VolChoices   == {PyFloat(MinValue), PyFloat(MaxVolatility)}

\* Arguments of the direct calls of the two functions.
DirectS      == {PyFloat(1000), NpFloat(1200)}
DirectK      == {PyFloat(0), PyFloat(1000)}
DirectT      == {PyFloat(1000)}
DirectR      == {PyFloat(50)}
DirectSigma  == {NpFloat(1000)}
DirectType   == {"call", "put", "straddle"}
DirectSpots  == {<<>>, <<NpFloat(1000), PyFloat(1200)>>}
DirectVols   == {<<PyFloat(200), PyFloat(400)>>}

----------------------------------------------------------------------------------------------------------------------------------------------
(* Initial state and call records *)

Init ==
    /\ pc = "idle"
    /\ g = NoNames
    /\ stack = <<>>
    /\ figures = 0
    /\ page = <<>>
    /\ outcome = <<>>
    /\ first = <<>>
    /\ last = <<>>
    /\ ops = 0

\* The record of one call of black_scholes.
PricingCall(S, K, T, r, sigma, option_type) ==
    [args |-> <<S, K, T, r, sigma, option_type>>,
     out  |-> black_scholes(S, K, T, r, sigma, option_type)]

\* first and last after the calls cs (in order, not empty) have been made.
Logged(cs) ==
    /\ first' = IF first = <<>> THEN <<cs[1]>> ELSE first
    /\ last' = cs

\* The operation op (the script, or a direct call of a function) ended with res.
Ended(op, res) == <<[op |-> op, res |-> res]>>

Resting == pc \in {"idle", "done", "aborted"} /\ stack = <<>>

----------------------------------------------------------------------------
(* The script, src/app.py lines 46-157 *)

Item(what, fig) == [item |-> what, fig |-> fig]

\* The run stops with an uncaught exception.
Abort(exc, globals, shown) ==
    /\ pc' = "aborted"
    /\ g' = globals
    /\ page' = shown
    /\ outcome' = Ended("script", Raise(exc))

\* Lines 104-105.
Ranges(ns) ==
    Bind(ns, [spot_range |-> np_linspace(ns.spot_min, ns.spot_max, GridPoints).value,
              vol_range  |-> np_linspace(ns.vol_min, ns.vol_max, GridPoints).value])

\* Streamlit reruns the script from the top, in a fresh global namespace and
\* on an empty page.  The figures registered with pyplot stay registered.
Rerun ==
    /\ pc \in {"done", "aborted"}
    /\ stack = <<>>
    /\ pc' = "idle"
    /\ g' = NoNames
    /\ page' = <<>>
    /\ outcome' = <<>>
    /\ last' = <<>>
    /\ UNCHANGED <<stack, figures, first, ops>>

\* Lines 46-105: the script starts and collects the inputs in the sidebar.
Sidebar ==
    /\ pc = "idle"
    /\ stack = <<>>
    /\ ops < MaxOps
    /\ ops' = ops + 1
    /\ last' = <<>>
    /\ UNCHANGED <<stack, figures, first>>
    /\ \E S \in S_inputs, K \in K_inputs, T \in T_inputs,
          sigma \in sigma_inputs, r \in r_inputs :
        LET g0    == [S |-> S, K |-> K, T |-> T, sigma |-> sigma, r |-> r]
            shown == <<Item("style", 0), Item("sidebar", 0)>>
            lo    == <<PyFloat(MinValue)>>
            hi    == <<PyFloat(MaxVolatility)>>
            d_spot_min == Mul(S, PyFloat(800))
            d_spot_max == Mul(S, PyFloat(1200))
            d_vol_min  == Mul(sigma, PyFloat(500))
            d_vol_max  == Mul(sigma, PyFloat(1500))
        IN
        IF WidgetRaises(d_spot_min, lo, <<>>)
        THEN Abort("StreamlitAPIException", g0, shown)
        ELSE \E spot_min \in SpotChoices :
        IF WidgetRaises(d_spot_max, lo, <<>>)
        THEN Abort("StreamlitAPIException", Bind(g0, [spot_min |-> spot_min]), shown)
        ELSE \E spot_max \in SpotChoices :
        LET g1 == Bind(g0, [spot_min |-> spot_min, spot_max |-> spot_max]) IN
        IF WidgetRaises(d_vol_min, lo, hi)
        THEN Abort("StreamlitAPIException", g1, shown)
        ELSE \E vol_min \in VolChoices :
        IF WidgetRaises(d_vol_max, lo, hi)
        THEN Abort("StreamlitAPIException", Bind(g1, [vol_min |-> vol_min]), shown)
        ELSE \E vol_max \in VolChoices :
            /\ pc' = "inputs"
            /\ g' = Ranges(Bind(g1, [vol_min |-> vol_min, vol_max |-> vol_max]))
            /\ page' = shown
            /\ outcome' = <<>>

\* Lines 107-149: the inputs table, the two prices and their display.
Price ==
    /\ pc = "inputs"
    /\ UNCHANGED <<stack, figures, ops>>
    /\ LET shown == page \o <<Item("title", 0), Item("table", 0)>>
           c == PricingCall(g.S, g.K, g.T, g.r, g.sigma, "call")
           p == PricingCall(g.S, g.K, g.T, g.r, g.sigma, "put")
       IN
       IF c.out.kind = "raise"
       THEN /\ Abort(c.out.exc, g, shown)
            /\ Logged(<<c>>)
       ELSE IF p.out.kind = "raise"
       THEN /\ Abort(p.out.exc, Bind(g, [call_price |-> c.out.value]), shown)
            /\ Logged(<<c, p>>)
       ELSE /\ pc' = "priced"
            /\ g' = Bind(g, [call_price |-> c.out.value, put_price |-> p.out.value])
            /\ page' = shown \o <<Item("call_metric", 0), Item("put_metric", 0),
                                  Item("title", 0), Item("info", 0)>>
            /\ Logged(<<c, p>>)
            /\ UNCHANGED outcome

----------------------------------------------------------------------------
(* plot_heatmap, src/app.py lines 21-44 *)

\* Line 21: the parameters, in order.
plot_heatmap_params == <<"black_scholes_func", "spot_range", "vol_range", "T", "r", "K">>

\* The call of line 151 as it would be with K, T, r passed in the order of
\* black_scholes's own parameters.
HeatmapCallArgs_KTr(ns) == <<"black_scholes", ns.spot_range, ns.vol_range, ns.K, ns.T, ns.r>>

\* Line 151: the arguments the script passes, in order.
HeatmapCallArgs(ns) == <<"black_scholes", ns.spot_range, ns.vol_range, ns.T, ns.r, ns.K>>

\* Lines 21-23: the arguments are bound to the parameters by position and the
\* two grids are allocated.
HeatmapEnter(caller, args) ==
    LET l0 == [n \in {plot_heatmap_params[k] : k \in 1..6} |->
                 args[CHOOSE k \in 1..6 : plot_heatmap_params[k] = n]]
        n  == Len(l0.vol_range)
        m  == Len(l0.spot_range)
    IN  [caller |-> caller,
         locals |-> Bind(l0, [call_prices |-> np_zeros(n, m),
                              put_prices  |-> np_zeros(n, m)]),
         at     |-> IF n = 0 \/ m = 0 THEN "render" ELSE "loop",
         next   |-> <<0, 0>>]

\* A call through black_scholes_func.
CallFunc(func, S, K, T, r, sigma, option_type) ==
    CASE func = "black_scholes" -> PricingCall(S, K, T, r, sigma, option_type)

\* Lines 27-28: the two calls one iteration makes, in order; the second is
\* made only if the first returns.
BodyCalls(l) ==
    LET c == CallFunc(l.black_scholes_func, l.S, l.K, l.T, l.r, l.sigma, "call")
        p == CallFunc(l.black_scholes_func, l.S, l.K, l.T, l.r, l.sigma, "put")
    IN  IF c.out.kind = "raise" THEN <<c>> ELSE <<c, p>>

\* The loop body as it would be with the two calls wrapped in a try whose
\* handler moves on to the next cell: the cell keeps the 0 of np.zeros.
HeatmapBody_Swallow(l, cs) ==
    IF cs[Len(cs)].out.kind = "raise" THEN Return(l)
    ELSE Return(Bind(l,
           [call |-> cs[1].out.value,
            put  |-> cs[2].out.value,
            call_prices |-> SetCell(l.call_prices, l.i, l.j, cs[1].out.value),
            put_prices  |-> SetCell(l.put_prices, l.i, l.j, cs[2].out.value)]))

\* Lines 27-30: one iteration of the loop body with i, sigma, j, S bound,
\* given the calls cs it made: an exception of either call propagates;
\* otherwise both results are stored in their grids.
HeatmapBody(l, cs) ==
    IF cs[Len(cs)].out.kind = "raise" THEN cs[Len(cs)].out
    ELSE Return(Bind(l,
           [call |-> cs[1].out.value,
            put  |-> cs[2].out.value,
            call_prices |-> SetCell(l.call_prices, l.i, l.j, cs[1].out.value),
            put_prices  |-> SetCell(l.put_prices, l.i, l.j, cs[2].out.value)]))

\* Lines 25-26: the loop variables of the iteration at cell (i, j).
LoopVars(l, i, j) ==
    Bind(l, [i |-> i, sigma |-> l.vol_range[i + 1], j |-> j, S |-> l.spot_range[j + 1]])

\* Line 151: the script calls plot_heatmap.
CallHeatmap ==
    /\ pc = "priced"
    /\ pc' = "heatmap"
    /\ stack' = <<HeatmapEnter("script", HeatmapCallArgs(g))>>
    /\ UNCHANGED <<g, figures, page, outcome, first, last, ops>>

\* Lines 25-30: one iteration of the double loop.
HeatmapCell ==
    /\ stack # <<>>
    /\ stack[1].at = "loop"
    /\ LET f   == stack[1]
           i   == f.next[1]
           j   == f.next[2]
           l   == LoopVars(f.locals, i, j)
           cs  == BodyCalls(l)
           res == HeatmapBody(l, cs)
           m   == Len(l.spot_range)
           n   == Len(l.vol_range)
           nxt == IF j + 1 < m THEN <<i, j + 1>> ELSE <<i + 1, 0>>
       IN
       /\ Logged(cs)
       /\ IF res.kind = "raise"
          THEN /\ stack' = <<>>
               /\ outcome' = Ended("plot_heatmap", res)
               /\ pc' = IF f.caller = "script" THEN "aborted" ELSE pc
          ELSE /\ stack' = <<[f EXCEPT !.locals = res.value,
                                       !.next = nxt,
                                       !.at = IF nxt[1] < n THEN "loop" ELSE "render"]>>
               /\ UNCHANGED <<outcome, pc>>
    /\ UNCHANGED <<g, figures, page, ops>>

\* One figure: plt.subplots() registers a new figure, sns.heatmap draws the
\* grid into it with the rounded ranges as tick labels.
Figure(num, data, l, title, cmap) ==
    [num |-> num, data |-> data,
     xticklabels |-> np_round(l.spot_range), yticklabels |-> np_round(l.vol_range),
     cmap |-> cmap, title |-> title, xlabel |-> "Spot Price", ylabel |-> "Volatility"]

\* Lines 32-42.
HeatmapRender ==
    /\ stack # <<>>
    /\ stack[1].at = "render"
    /\ LET f == stack[1]
           l == f.locals
       IN  stack' = <<[f EXCEPT
              !.locals = Bind(l,
                  [fig_call |-> Figure(figures + 1, l.call_prices, l, "Call Option Prices", "YlGnBu"),
                   fig_put  |-> Figure(figures + 2, l.put_prices, l, "Put Option Prices", "YlOrBr")]),
              !.at = "return"]>>
    /\ figures' = figures + 2
    /\ UNCHANGED <<pc, g, page, outcome, first, last, ops>>

\* Line 44 as it would be with the two figures returned in the other order.
HeatmapReturn_Swapped ==
    /\ stack # <<>>
    /\ stack[1].at = "return"
    /\ LET f == stack[1]
           l == f.locals
       IN  /\ outcome' = Ended("plot_heatmap", Return(<<l.fig_put, l.fig_call>>))
           /\ IF f.caller = "script"
              THEN /\ g' = Bind(g, [fig_call |-> l.fig_put, fig_put |-> l.fig_call])
                   /\ pc' = "plotted"
              ELSE UNCHANGED <<g, pc>>
    /\ stack' = <<>>
    /\ UNCHANGED <<figures, page, first, last, ops>>

\* Line 44, and for the script the assignment of line 151.
HeatmapReturn ==
    /\ stack # <<>>
    /\ stack[1].at = "return"
    /\ LET f == stack[1]
           l == f.locals
       IN  /\ outcome' = Ended("plot_heatmap", Return(<<l.fig_call, l.fig_put>>))
           /\ IF f.caller = "script"
              THEN /\ g' = Bind(g, [fig_call |-> l.fig_call, fig_put |-> l.fig_put])
                   /\ pc' = "plotted"
              ELSE UNCHANGED <<g, pc>>
    /\ stack' = <<>>
    /\ UNCHANGED <<figures, page, first, last, ops>>

\* Lines 153-157.
Display ==
    /\ pc = "plotted"
    /\ pc' = "done"
    /\ page' = page \o <<Item("pyplot", g.fig_call.num), Item("pyplot", g.fig_put.num)>>
    /\ UNCHANGED <<g, stack, figures, outcome, first, last, ops>>

----------------------------------------------------------------------------
(* Direct calls of the two functions *)

DirectPrice ==
    /\ Resting
    /\ ops < MaxOps
    /\ ops' = ops + 1
    /\ \E S \in DirectS, K \in DirectK, T \in DirectT, r \in DirectR,
          sigma \in DirectSigma, option_type \in DirectType :
        LET c == PricingCall(S, K, T, r, sigma, option_type) IN
        /\ outcome' = Ended("black_scholes", c.out)
        /\ Logged(<<c>>)
    /\ UNCHANGED <<pc, g, stack, figures, page>>

DirectHeatmap ==
    /\ Resting
    /\ ops < MaxOps
    /\ ops' = ops + 1
    /\ \E spots \in DirectSpots, vols \in DirectVols, T \in DirectT,
          r \in DirectR, K \in DirectK :
        stack' = <<HeatmapEnter("direct", <<"black_scholes", spots, vols, T, r, K>>)>>
    /\ outcome' = <<>>
    /\ last' = <<>>
    /\ UNCHANGED <<pc, g, figures, page, first>>

Next ==
    \/ Rerun
    \/ Sidebar
    \/ Price
    \/ CallHeatmap
    \/ HeatmapCell
    \/ HeatmapRender
    \/ HeatmapReturn
    \/ Display
    \/ DirectPrice
    \/ DirectHeatmap

Spec == Init /\ [][Next]_vars

----------------------------------------------------------------------------
(* Properties *)

\* Python's x <= 0 on floats.
NonPositive(x) == ~IsNaN(x) /\ ~Positive(x)

\* The arguments of a recorded call.
ArgS(c)     == c.args[1]
ArgK(c)     == c.args[2]
ArgT(c)     == c.args[3]
ArgSigma(c) == c.args[5]
ArgType(c)  == c.args[6]

\* C1: when the double loop of plot_heatmap has finished, the call grid and
\* the put grid have one row per volatility and one column per spot price,
\* cell [i][j] of each is what black_scholes returns for spot_range[j], K, T,
\* r, vol_range[i] and that side, and for the script's call the ranges and
\* K, T, r are the script's own.
C1_GridCells ==
    \A k \in DOMAIN stack :
        LET f == stack[k]
            l == f.locals
            n == Len(l.vol_range)
            m == Len(l.spot_range)
        IN  f.at = "render" =>
            /\ Len(l.call_prices.a) = n
            /\ Len(l.put_prices.a) = n
            /\ \A i \in 0..(n - 1) :
                /\ Len(l.call_prices.a[i + 1]) = m
                /\ Len(l.put_prices.a[i + 1]) = m
                /\ \A j \in 0..(m - 1) :
                    /\ Return(l.call_prices.a[i + 1][j + 1]) =
                         black_scholes(l.spot_range[j + 1], l.K, l.T, l.r,
                                       l.vol_range[i + 1], "call")
                    /\ Return(l.put_prices.a[i + 1][j + 1]) =
                         black_scholes(l.spot_range[j + 1], l.K, l.T, l.r,
                                       l.vol_range[i + 1], "put")
            /\ f.caller = "script" =>
                 <<l.spot_range, l.vol_range, l.K, l.T, l.r>> =
                 <<g.spot_range, g.vol_range, g.K, g.T, g.r>>

\* The script's grids are complete, over ranges that are not constant,
\* with prices that differ between the corners.
C1_Witness ==
    /\ stack # <<>>
    /\ stack[1].at = "render"
    /\ stack[1].caller = "script"
    /\ LET l == stack[1].locals IN
        /\ Len(l.vol_range) = GridPoints
        /\ Len(l.spot_range) = GridPoints
        /\ l.spot_range[1] # l.spot_range[GridPoints]
        /\ l.vol_range[1] # l.vol_range[GridPoints]
        /\ IsFinite(l.call_prices.a[1][GridPoints])
        /\ l.call_prices.a[1][GridPoints] # l.call_prices.a[GridPoints][1]
        /\ l.put_prices.a[1][GridPoints] # l.put_prices.a[GridPoints][1]

\* C2 (as claimed): every call of black_scholes with an option_type other than
\* 'call' and 'put' fails with the invalid-parameter error (ValueError), and a
\* call with 'call' or 'put' never does.
C2_BadSideRaisesValueError ==
    \A k \in DOMAIN last :
        (ArgType(last[k]) \notin {"call", "put"}) <=> (last[k].out = Raise("ValueError"))

\* C3 (as claimed): every call of black_scholes with S <= 0, K <= 0, T <= 0 or
\* sigma <= 0 fails instead of returning a price (whatever the exception).
C3_DomainViolationRaises ==
    \A k \in DOMAIN last :
        LET c == last[k] IN
        (NonPositive(ArgS(c)) \/ NonPositive(ArgK(c)) \/ NonPositive(ArgT(c))
            \/ NonPositive(ArgSigma(c)))
        => c.out.kind = "raise"

\* C4 (as claimed): an unrecognized option_type is detected before any
\* arithmetic, so two calls with an unrecognized option_type end the same way
\* whatever their S, K, T, r, sigma.
C4_BadSideOutcomeIndependent ==
    \A k \in DOMAIN last :
        (/\ first # <<>>
         /\ ArgType(first[1]) \notin {"call", "put"}
         /\ ArgType(last[k]) \notin {"call", "put"})
        => last[k].out = first[1].out

\* C5 (as claimed): the ranges the script hands to plot_heatmap were built from
\* a minimum that is not above the maximum.
C5_RangesOrdered ==
    (stack # <<>> /\ stack[1].caller = "script")
    => (~Less(g.spot_max, g.spot_min) /\ ~Less(g.vol_max, g.vol_min))

\* What a step of plot_heatmap leaves alone: the page and the script's globals
\* (but for the script's own assignment of the result, line 151).
HeatmapFrame ==
    /\ page' = page
    /\ \A n \in DOMAIN g : n \in DOMAIN g' /\ g'[n] = g[n]
    /\ DOMAIN g' \subseteq DOMAIN g \cup {"fig_call", "fig_put"}

C7_FailurePropagates ==
    /\ [](\A k \in DOMAIN outcome :
            (outcome[k].op = "plot_heatmap" /\ outcome[k].res.kind = "raise")
            => stack = <<>>)
    /\ [][(stack # <<>> /\ stack[1].at = "loop") =>
            LET f == stack[1]
                i == f.next[1]
                j == f.next[2]
                l == LoopVars(f.locals, i, j)
                c == black_scholes(l.S, l.K, l.T, l.r, l.sigma, "call")
                p == black_scholes(l.S, l.K, l.T, l.r, l.sigma, "put")
                failure == IF c.kind = "raise" THEN <<c>>
                           ELSE IF p.kind = "raise" THEN <<p>> ELSE <<>>
            IN  IF failure # <<>>
                THEN /\ stack' = <<>>
                     /\ outcome' = Ended("plot_heatmap", failure[1])
                     /\ figures' = figures
                     /\ f.caller = "script" => pc' = "aborted"
                ELSE /\ stack' # <<>>
                     /\ stack'[1].locals.call_prices.a[i + 1][j + 1] = c.value
                     /\ stack'[1].locals.put_prices.a[i + 1][j + 1] = p.value
          ]_vars

\* A call of plot_heatmap has ended with an exception raised at a cell that is
\* not the first one.
C7_Witness ==
    /\ outcome # <<>>
    /\ outcome[1].op = "plot_heatmap"
    /\ outcome[1].res.kind = "raise"
    /\ ops = 1
    /\ first # <<>>
    /\ first[1].out.kind = "return"
    /\ last # <<>>
    /\ last[Len(last)].out = outcome[1].res
    /\ figures = 0

\* The five inputs of the sidebar.
SidebarInputs == {"S", "K", "T", "sigma", "r"}

C10_GridCallsValid ==
    (stack # <<>> /\ stack[1].caller = "script" /\ "S" \in DOMAIN stack[1].locals)
    => LET l == stack[1].locals IN
       Positive(l.S) /\ Positive(l.sigma) /\ Positive(l.K) /\ Positive(l.T)

=============================================================================
